---- MODULE Spec2Model ----
(***************************************************************************)
(* Gitter: a local, single-user version-control core.                      *)
(*                                                                         *)
(* The model follows internal/repository.go (repository locator, index,   *)
(* content store, HEAD) and the operations part of the same file          *)
(* (ShowStatus, CommitChanges, ShowDiff, ShowLog).  Every command is one   *)
(* atomic action: the program is single-threaded and runs each command to  *)
(* completion.  The file system is the state: the working tree and the     *)
(* files under .gitter.  The current directory of a command is an input    *)
(* of the command (cwd), relative to the working root.                     *)
(*                                                                         *)
(* Paths are sequences of path segments; a digest is the tagged tuple      *)
(* <<"sha1", bytes>>, which is injective as SHA-1 is assumed to be.        *)
(***************************************************************************)
EXTENDS Integers, Sequences, FiniteSets, TLC

VARIABLES
    inited,     \* the .gitter directory exists in the working root
    wt,         \* working tree: file path -> bytes, or NoFile
    headFile,   \* content of .gitter/HEAD
    mainRef,    \* content of .gitter/refs/heads/main (trimmed), or NoFile
    indexFile,  \* bytes of .gitter/index
    logFile,    \* lines of .gitter/log
    objects,    \* .gitter/objects: object name -> bytes
    made,       \* history: names of the commits created, oldest first
    fresh,      \* history: files added since their last change
    edits,      \* history: number of changes of the working tree
    lost,       \* history: an object file was lost from .gitter/objects
    aborted,    \* history: a commit was aborted by an I/O failure
    proc,       \* the invocations running side by side: their position and locals
    find,       \* the loop of FindGitterRepo: inputs, position, result
    last        \* result of the last command run

vars == <<inited, wt, headFile, mainRef, indexFile, logFile, objects,
          made, fresh, edits, lost, aborted, proc, find, last>>

repoVars == <<headFile, mainRef, indexFile, logFile, objects>>

----------------------------------------------------------------------------
(* Bounds *)

MaxCommits == 2     \* successful commits in a run
MaxEdits   == 1     \* changes of the working tree in a run
MaxDepth   == 2     \* depth of the directory tree FindGitterRepo searches
MaxRepos   == 2     \* directories of that tree holding a .gitter directory
MaxEntries == 2     \* entries of an index handed to SaveIndex

(* Inputs *)

Contents == {1, 2}      \* file contents the user writes
Dates    == {1}         \* values of time.Now()
Messages == {"msg"}     \* commit messages

----------------------------------------------------------------------------
(* Bytes, digests and the fixed layout of the working tree *)

NoFile    == <<"nofile">>
EmptyHash == <<>>
Blob(c)   == <<"blob", c>>
Blobs     == {Blob(c) : c \in Contents}

GITTER_DIR == ".gitter"

\* mutation: HEAD names another branch
HEAD_REF_master == "ref: refs/heads/master\n"

HEAD_REF == "ref: refs/heads/main\n"

FG == <<"notes.gitter.txt">>
FS == <<"sub", "a.txt">>

Files     == {FG, FS}
Dirs      == {<< >>, <<"sub">>}
WalkOrder == <<FG, FS>>              \* filepath.Walk visits in lexical order
TxtNames  == <<"a.txt", "notes.gitter.txt">>
\* the names a directory can hold, sorted as filepath.Glob returns them
AllNames  == <<GITTER_DIR, "a.txt", "notes.gitter.txt", "sub">>

\* the contents the user gives a file: sub/a.txt is there from the start
\* and is rewritten, notes.gitter.txt is created
ContentsOf(f) == IF f = FS THEN Contents ELSE {1}

AddArgs == {<<"a.txt">>, <<"sub", "a.txt">>, <<"notes.gitter.txt">>,
            <<"sub">>, <<"*.txt">>, <<"*">>}

Range(s) == {s[i] : i \in 1..Len(s)}

CalculateHash(data) == <<"sha1", data>>

\* the directories: those of the project and, once init ran, .gitter
IsDir(abs)  == abs \in Dirs \/ (inited /\ abs = <<GITTER_DIR>>)
IsFile(abs) == abs \in Files /\ wt[abs] # NoFile
\* mutation: a removed file still passes os.Stat
Exists_stale(abs) == abs \in Dirs \/ abs \in Files

Exists(abs) == IsDir(abs) \/ IsFile(abs)

\* strings.Contains(path, GITTER_DIR), decided segment by segment
ContainsGitterDir(path) ==
    \E i \in 1..Len(path) : path[i] \in {GITTER_DIR, "notes.gitter.txt"}

\* the regular files filepath.Walk(repo.WorkingDir) reaches, in walk order
WalkFiles == SelectSeq(WalkOrder, LAMBDA f : IsFile(f))

----------------------------------------------------------------------------
(* Index *)

\* a file name that is not UTF-8 (the byte 0xE9 alone), and what
\* encoding/json writes for it: the byte replaced by U+FFFD
BadName   == "caf<E9>.txt"
FixedName == "caf<FFFD>.txt"

\* json.Marshal of a string: invalid UTF-8 is coerced, the rest is kept
ToValidUTF8(name) == IF name = BadName THEN FixedName ELSE name

ValidPath(path) == [i \in 1..Len(path) |-> ToValidUTF8(path[i])]

\* json.Marshal([]IndexEntry): the entries in order, every field written
MarshalEntries(entries) ==
    <<"entries", [i \in 1..Len(entries) |->
                    [entries[i] EXCEPT !.file_path = ValidPath(@)]]>>

\* the index file between the open with O_TRUNC and the write
EmptyBytes == <<"empty">>

\* the index file after a shorter write over a longer one: the new bytes
\* followed by the tail of the old ones
Garbled == <<"garbled">>

\* json.Unmarshal of no bytes, and of bytes with a tail after the value
LoadIndexErr(idxFile) ==
    IF idxFile = EmptyBytes THEN "unexpected end of JSON input"
    ELSE IF idxFile = Garbled THEN "invalid character after top-level value"
    ELSE ""

UnmarshalEntries(data) == data[2]

LoadIndex(idxFile) == UnmarshalEntries(idxFile)

SaveIndex(index) == MarshalEntries(index)

IndexEntry(file, hash, modified) ==
    [file_path |-> file, hash |-> hash, modified |-> modified]

\* mutation: the flag of an entry that is found is inverted
Upsert_flip(index, file, hash) ==
    IF \E i \in 1..Len(index) : index[i].file_path = file
    THEN LET k == CHOOSE i \in 1..Len(index) :
                    /\ index[i].file_path = file
                    /\ \A j \in 1..(i-1) : index[j].file_path # file
         IN [index EXCEPT ![k] = IndexEntry(file, hash, ~index[k].modified)]
    ELSE Append(index, IndexEntry(file, hash, TRUE))

\* mutation: the entry is appended without looking for the path
Upsert_append(index, file, hash) ==
    Append(index, [file_path |-> file, hash |-> hash, modified |-> TRUE])

\* AddFile, "Update or add to index": the first entry with the path is
\* rewritten in place, otherwise a new entry is appended
Upsert(index, file, hash) ==
    IF \E i \in 1..Len(index) : index[i].file_path = file
    THEN LET k == CHOOSE i \in 1..Len(index) :
                    /\ index[i].file_path = file
                    /\ \A j \in 1..(i-1) : index[j].file_path # file
         IN [index EXCEPT ![k] = IndexEntry(file, hash, TRUE)]
    ELSE Append(index, IndexEntry(file, hash, TRUE))

hashFile(abs) == CalculateHash(wt[abs])

\* mutation: the objects directory is emptied before the copy
copyFile_only(abs, hash, objs) == (hash :> wt[abs])

\* mutation: nothing is copied
copyFile_skip(abs, hash, objs) == objs

\* os.Create + io.Copy: the object file is (re)written with the source bytes
copyFile(abs, hash, objs) == (hash :> wt[abs]) @@ objs

\* mutation: the object file is not written
WriteObject_skip(name, data, objs) == objs

WriteObject(name, data, objs) == (name :> data) @@ objs

\* strings.Contains(filePath, "*")
IsGlob(filePath) == filePath \in {<<"*.txt">>, <<"*">>}

\* filepath.Glob of "*.txt" or "*" in the current directory: the matching
\* names that exist there, files and directories alike, sorted
Glob(cwd, filePath) ==
    LET matching == IF filePath = <<"*">> THEN AllNames ELSE TxtNames
        names == [i \in 1..Len(matching) |-> <<matching[i]>>]
    IN SelectSeq(names, LAMBDA f : Exists(cwd \o f))

RECURSIVE AddLoop(_, _, _, _, _)
AddLoop(cwd, files, index, objs, done) ==
    IF files = << >>
    THEN [err |-> "", index |-> index, objects |-> objs, done |-> done]
    ELSE LET file == Head(files)
             abs  == cwd \o file
         IN IF ~Exists(abs)
            THEN AddLoop(cwd, Tail(files), index, objs, done)
            ELSE IF IsDir(abs)
            THEN [err |-> "is a directory", index |-> index,
                  objects |-> objs, done |-> done]
            ELSE LET hash == hashFile(abs)
                 IN AddLoop(cwd, Tail(files), Upsert(index, file, hash),
                            copyFile(abs, hash, objs), done \cup {abs})

\* AddFile on a located repository; the index file is written only when
\* every file of the list went through
AddFile(cwd, filePath, idxFile, objs) ==
    LET files == IF IsGlob(filePath) THEN Glob(cwd, filePath) ELSE <<filePath>>
        r     == AddLoop(cwd, files, LoadIndex(idxFile), objs, {})
    IN IF r.err # ""
       THEN [err |-> r.err, indexFile |-> idxFile, objects |-> r.objects,
             done |-> {}]
       ELSE [err |-> "", indexFile |-> SaveIndex(r.index),
             objects |-> r.objects, done |-> r.done]

----------------------------------------------------------------------------
(* HEAD *)

GetCurrentHead ==
    IF headFile = HEAD_REF
    THEN IF mainRef = NoFile THEN EmptyHash ELSE mainRef
    ELSE headFile

\* mutation: the ref is given a name that is not the commit's
UpdateHead_rehash(commitHash) == CalculateHash(commitHash)

UpdateHead(commitHash) == commitHash

\* mutation: the line is written at the start of the file
UpdateLog_front(hash, lines) == <<hash>> \o lines

\* O_APPEND: the line goes to the end of the file
UpdateLog(hash, lines) == Append(lines, hash)

----------------------------------------------------------------------------
(* FindGitterRepo: the loop, one iteration a step.  It is run on its own in  *)
(* a directory tree where any directory may hold a .gitter directory; the   *)
(* commands below run in a tree whose only repository is the one init put   *)
(* in the root, where the loop succeeds exactly when inited holds.          *)

FindNames == {"a", "b"}

\* the directories of the tree: the root << >> and the paths below it
FindDirs == UNION {[1..n -> FindNames] : n \in 0..MaxDepth}

RepoSets == {r \in SUBSET FindDirs : Cardinality(r) <= MaxRepos}

\* mutation: the parent of a directory is the directory
Dir_self(dir) == dir

\* filepath.Dir: the parent; the root is its own parent
Dir(dir) == IF dir = << >> THEN dir ELSE SubSeq(dir, 1, Len(dir) - 1)

NoRepo == [WorkingDir |-> << >>, GitDir |-> << >>]

FindIdle ==
    [pc |-> "idle", cwd |-> << >>, repos |-> {}, dir |-> << >>,
     err |-> "", repo |-> NoRepo]

FindGitterRepo ==
    /\ find.pc = "loop"
    /\ LET gitterPath == find.dir \o <<GITTER_DIR>>
           parent == Dir(find.dir)
       IN IF find.dir \in find.repos
          THEN find' = [find EXCEPT !.pc = "return",
                           !.repo = [WorkingDir |-> find.dir,
                                     GitDir |-> gitterPath]]
          ELSE IF parent = find.dir
          THEN find' = [find EXCEPT !.pc = "return",
                                    !.err = "not a gitter repository"]
          ELSE find' = [find EXCEPT !.dir = parent]
    /\ UNCHANGED <<inited, wt, made, fresh, edits, lost, aborted, proc, last>>
    /\ UNCHANGED repoVars

----------------------------------------------------------------------------
(* Results of commands *)

NoOut ==
    [op |-> "none", all |-> FALSE, err |-> "", count |-> 0,
     staged |-> << >>, notStaged |-> {}, untracked |-> {}, clean |-> FALSE,
     listed |-> << >>, note |-> "", name |-> EmptyHash, diff |-> << >>]

Out(op, err) == [NoOut EXCEPT !.op = op, !.err = err]

----------------------------------------------------------------------------
(* Initial state: a project holding the file sub/a.txt, without repository *)

NoProc == [pc |-> "idle", saving |-> << >>, before |-> << >>]

NoRepository ==
    /\ inited = FALSE
    /\ wt = [f \in Files |-> IF f = FS THEN Blob(1) ELSE NoFile]
    /\ headFile = NoFile
    /\ mainRef = NoFile
    /\ indexFile = NoFile
    /\ logFile = << >>
    /\ objects = << >>
    /\ made = << >>
    /\ fresh = {}
    /\ edits = 0
    /\ lost = FALSE
    /\ aborted = FALSE
    /\ proc = NoProc
    /\ last = NoOut

Init ==
    /\ NoRepository
    /\ find = FindIdle

\* a run of FindGitterRepo alone, from any directory of the tree
FindInit ==
    /\ NoRepository
    /\ \E cwd \in FindDirs, repos \in RepoSets :
          find = [FindIdle EXCEPT !.pc = "loop", !.cwd = cwd,
                                  !.repos = repos, !.dir = cwd]

----------------------------------------------------------------------------
(* Environment: edits of the working tree *)

EditFile ==
    \E f \in Files, c \in Contents :
        /\ c \in ContentsOf(f)
        /\ wt[f] # Blob(c)
        /\ wt' = [wt EXCEPT ![f] = Blob(c)]
        /\ fresh' = fresh \ {f}
        /\ edits < MaxEdits
        /\ edits' = edits + 1
        /\ UNCHANGED <<inited, made, last, lost, aborted, proc, find>>
        /\ UNCHANGED repoVars

RemoveFile ==
    \E f \in Files :
        /\ wt[f] # NoFile
        /\ wt' = [wt EXCEPT ![f] = NoFile]
        /\ fresh' = fresh \ {f}
        /\ edits < MaxEdits
        /\ edits' = edits + 1
        /\ UNCHANGED <<inited, made, last, lost, aborted, proc, find>>
        /\ UNCHANGED repoVars

IsBlob(data) == data[1] = "blob"

\* the blobs the entries of the Tree object named treeHash refer to
TreeBlobs(treeHash) ==
    IF treeHash \notin DOMAIN objects THEN {}
    ELSE {e.hash : e \in Range(objects[treeHash][2])} \cap DOMAIN objects

\* a blob file the Tree of the HEAD commit refers to disappears from
\* .gitter/objects (once in a run)
LoseBlob ==
    \E h \in DOMAIN objects :
        /\ ~lost /\ ~aborted
        /\ IsBlob(objects[h])
        /\ mainRef \in DOMAIN objects
        /\ h \in TreeBlobs(objects[mainRef][2].tree_hash)
        /\ objects' = [g \in DOMAIN objects \ {h} |-> objects[g]]
        /\ lost' = TRUE
        /\ UNCHANGED <<inited, wt, headFile, mainRef, indexFile, logFile,
                       made, fresh, edits, aborted, proc, find, last>>

----------------------------------------------------------------------------
(* init *)

\* mutation: os.Stat never finds the metadata directory
IsInitialized_never == FALSE

\* "Check if already initialized": os.Stat(gitterPath) succeeds
IsInitialized == inited

\* the directories os.MkdirAll has made
GitterDirs ==
    IF inited
    THEN {<<GITTER_DIR>>, <<GITTER_DIR, "refs">>,
          <<GITTER_DIR, "refs", "heads">>, <<GITTER_DIR, "objects">>}
    ELSE {}

InitRepository ==
    /\ IF IsInitialized
       THEN /\ last' = Out("init", "repository already initialized")
            /\ UNCHANGED <<inited, wt, made, fresh, edits, lost, aborted, proc, find>>
            /\ UNCHANGED repoVars
       ELSE /\ inited' = TRUE
            /\ headFile' = HEAD_REF
            /\ indexFile' = MarshalEntries(<< >>)
            /\ logFile' = << >>
            /\ last' = Out("init", "")
            /\ UNCHANGED <<wt, mainRef, objects, made, fresh, edits, lost, aborted, proc, find>>

----------------------------------------------------------------------------
(* add *)

Add(cwd, filePath) ==
        IF ~inited
        THEN /\ last' = Out("add", "not a gitter repository")
             /\ UNCHANGED <<inited, wt, made, fresh, edits, lost, aborted, proc, find>>
             /\ UNCHANGED repoVars
        ELSE LET r == AddFile(cwd, filePath, indexFile, objects)
             IN /\ indexFile' = r.indexFile
                /\ objects' = r.objects
                /\ fresh' = fresh \cup r.done
                /\ last' = [Out("add", r.err) EXCEPT
                               !.count = Cardinality(r.done)]
                /\ UNCHANGED <<inited, wt, headFile, mainRef, logFile, made,
                               edits, lost, aborted, proc, find>>

----------------------------------------------------------------------------
(* commit *)

\* mutation: the staged flag is not looked at
StagedFiles_all(index) == index

StagedFiles(index) == SelectSeq(index, LAMBDA entry : entry.modified)

\* mutation: the flags are left as they are
ResetIndex_keep(index) == index

\* "Reset index (mark all as not modified)"
ResetIndex(index) ==
    [i \in 1..Len(index) |-> [index[i] EXCEPT !.modified = FALSE]]

IsTracked(index, relPath) ==
    \E i \in 1..Len(index) : index[i].file_path = relPath

MarshalCommit(commit) == <<"commit", commit>>

IsCommitData(data) == data[1] = "commit"

UnmarshalCommit(data) == data[2]

\* the -a walk: AddFile(relPath) for every working file whose path the index
\* loaded at the start already holds; the first error ends the walk
RECURSIVE AddTracked(_, _, _, _, _, _)
AddTracked(cwd, files, index0, idxFile, objs, done) ==
    IF files = << >>
    THEN [err |-> "", indexFile |-> idxFile, objects |-> objs, done |-> done]
    ELSE LET relPath == Head(files)
         IN IF ContainsGitterDir(relPath) \/ ~IsTracked(index0, relPath)
            THEN AddTracked(cwd, Tail(files), index0, idxFile, objs, done)
            ELSE LET r == AddFile(cwd, relPath, idxFile, objs)
                 IN IF r.err # ""
                    THEN [err |-> r.err, indexFile |-> r.indexFile,
                          objects |-> r.objects, done |-> done]
                    ELSE AddTracked(cwd, Tail(files), index0, r.indexFile,
                                    r.objects, done \cup r.done)

\* mutation: the parent is left empty
NewCommit_orphan(message, date, treeHash, head) ==
    [hash |-> EmptyHash, author |-> "user", date |-> date,
     message |-> message, parent |-> EmptyHash, tree_hash |-> treeHash]

NewCommit(message, date, treeHash, head) ==
    [hash |-> EmptyHash, author |-> "user", date |-> date,
     message |-> message, parent |-> head, tree_hash |-> treeHash]

CommitChanges(cwd, message, all, date) ==
        /\ Len(made) < MaxCommits
        /\ IF ~inited
           THEN /\ last' = [Out("commit", "not a gitter repository")
                               EXCEPT !.all = all]
                /\ UNCHANGED <<inited, wt, made, fresh, edits, lost, aborted, proc, find>>
                /\ UNCHANGED repoVars
           ELSE LET index0 == LoadIndex(indexFile)
                    a == IF all
                         THEN AddTracked(cwd, WalkFiles, index0, indexFile, objects, {})
                         ELSE [err |-> "", indexFile |-> indexFile,
                               objects |-> objects, done |-> {}]
                    index == LoadIndex(a.indexFile)
                    stagedFiles == StagedFiles(index)
                    treeData == MarshalEntries(stagedFiles)
                    treeHash == CalculateHash(treeData)
                    head == GetCurrentHead
                    commitData == MarshalCommit(NewCommit(message, date, treeHash, head))
                    commitHash == CalculateHash(commitData)
                IN IF a.err # "" \/ stagedFiles = << >>
                   THEN /\ indexFile' = a.indexFile
                        /\ objects' = a.objects
                        /\ fresh' = fresh \cup a.done
                        /\ last' = [Out("commit", IF a.err # "" THEN a.err
                                                  ELSE "nothing to commit")
                                       EXCEPT !.all = all]
                        /\ UNCHANGED <<inited, wt, headFile, mainRef,
                                       logFile, made, edits, lost, aborted, proc, find>>
                   ELSE /\ objects' = WriteObject(commitHash, commitData,
                                         WriteObject(treeHash, treeData, a.objects))
                        /\ mainRef' = UpdateHead(commitHash)
                        /\ logFile' = UpdateLog(commitHash, logFile)
                        /\ indexFile' = SaveIndex(ResetIndex(index))
                        /\ made' = Append(made, commitHash)
                        /\ fresh' = fresh \cup a.done
                        /\ last' = [Out("commit", "") EXCEPT !.all = all,
                                                            !.name = commitHash]
                        /\ UNCHANGED <<inited, wt, headFile, edits, lost, aborted, proc, find>>

\* the writes of a commit that has something to commit, in program order:
\* tree object, commit object, branch ref, log, index
FailSteps == <<"tree", "commit", "head", "log", "index">>

StepOf(name) == CHOOSE i \in 1..Len(FailSteps) : FailSteps[i] = name

\* the write was done before the one that failed
Reached(failed, write) == StepOf(write) < StepOf(failed)

\* a commit in which the write named by failed returns an error (once in a
\* run): the writes before it are done, the commit returns the error, the
\* writes after it are not reached.  The failed write leaves its file as it
\* was (the open fails), or, for the branch ref when torn, empty (the open
\* with O_TRUNC succeeds and the write fails)
CommitAborted(cwd, message, all, date, failed, torn) ==
    /\ inited /\ ~aborted /\ ~lost
    /\ torn => failed = "head"
    /\ Len(made) < MaxCommits
    /\ LET index0 == LoadIndex(indexFile)
           a == IF all
                THEN AddTracked(cwd, WalkFiles, index0, indexFile, objects, {})
                ELSE [err |-> "", indexFile |-> indexFile,
                      objects |-> objects, done |-> {}]
           index == LoadIndex(a.indexFile)
           stagedFiles == StagedFiles(index)
           treeData == MarshalEntries(stagedFiles)
           treeHash == CalculateHash(treeData)
           head == GetCurrentHead
           commitData == MarshalCommit(NewCommit(message, date, treeHash, head))
           commitHash == CalculateHash(commitData)
           withTree == IF Reached(failed, "tree")
                       THEN WriteObject(treeHash, treeData, a.objects)
                       ELSE a.objects
       IN /\ a.err = "" /\ stagedFiles # << >>
          /\ objects' = IF Reached(failed, "commit")
                        THEN WriteObject(commitHash, commitData, withTree)
                        ELSE withTree
          /\ mainRef' = IF Reached(failed, "head") THEN UpdateHead(commitHash)
                        ELSE IF torn THEN EmptyHash
                        ELSE mainRef
          /\ made' = IF Reached(failed, "head")
                     THEN Append(made, commitHash) ELSE made
          /\ logFile' = IF Reached(failed, "log")
                        THEN UpdateLog(commitHash, logFile) ELSE logFile
          /\ indexFile' = a.indexFile
          /\ fresh' = fresh \cup a.done
          /\ aborted' = TRUE
          /\ last' = [Out("commit", "write failed") EXCEPT !.all = all]
          /\ UNCHANGED <<inited, wt, headFile, edits, lost, proc, find>>

----------------------------------------------------------------------------
(* status *)

\* the map workingFiles: the walked files outside paths containing .gitter
WorkingFiles == {f \in Range(WalkFiles) : ~ContainsGitterDir(f)}

StagedBucket(index) ==
    LET st == StagedFiles(index)
    IN [i \in 1..Len(st) |-> st[i].file_path]

\* the map indexedFiles: a later entry of a path replaces an earlier one
IndexedEntry(index, filePath) ==
    index[CHOOSE i \in 1..Len(index) :
            /\ index[i].file_path = filePath
            /\ \A j \in (i+1)..Len(index) : index[j].file_path # filePath]

\* mutation: a tracked path whose file is gone is listed as not staged
NotStagedBucket_deleted(index) ==
    {f \in WorkingFiles :
        /\ IsTracked(index, f)
        /\ ~IndexedEntry(index, f).modified
        /\ IndexedEntry(index, f).hash # hashFile(f)}
    \cup {f \in {index[i].file_path : i \in 1..Len(index)} :
                ~IsFile(f) /\ ~IndexedEntry(index, f).modified}

NotStagedBucket(index) ==
    {f \in WorkingFiles :
        /\ IsTracked(index, f)
        /\ ~IndexedEntry(index, f).modified
        /\ IndexedEntry(index, f).hash # hashFile(f)}

\* mutation: the index is not consulted
UntrackedBucket_all(index) == WorkingFiles

UntrackedBucket(index) ==
    {f \in WorkingFiles : ~IsTracked(index, f)}

ShowStatus ==
    IF ~inited
    THEN /\ last' = Out("status", "not a gitter repository")
         /\ UNCHANGED <<inited, wt, made, fresh, edits, lost, aborted, proc, find>>
         /\ UNCHANGED repoVars
    ELSE LET index == LoadIndex(indexFile)
             staged == StagedBucket(index)
             notStaged == NotStagedBucket(index)
             untracked == UntrackedBucket(index)
         IN /\ last' = [Out("status", "") EXCEPT
                           !.staged = staged,
                           !.notStaged = notStaged,
                           !.untracked = untracked,
                           !.clean = /\ Len(staged) = 0
                                     /\ notStaged = {}
                                     /\ untracked = {}]
            /\ UNCHANGED <<inited, wt, made, fresh, edits, lost, aborted, proc, find>>
            /\ UNCHANGED repoVars

----------------------------------------------------------------------------
(* log *)

\* the four Printf lines of one commit; read is the object file opened
Printed(currentCommit, commit) ==
    [read |-> currentCommit, hash |-> commit.hash, author |-> commit.author,
     date |-> commit.date, message |-> commit.message]

\* mutation: the loop ends after the first commit
LogWalk_first(currentCommit) ==
    IF currentCommit = EmptyHash \/ currentCommit \notin DOMAIN objects
    THEN [err |-> "", out |-> << >>]
    ELSE [err |-> "",
          out |-> <<Printed(currentCommit, UnmarshalCommit(objects[currentCommit]))>>]

\* "Traverse commit history": print the commit read, move to its parent
RECURSIVE LogWalk(_)
LogWalk(currentCommit) ==
    IF currentCommit = EmptyHash
    THEN [err |-> "", out |-> << >>]
    ELSE IF currentCommit \notin DOMAIN objects
    THEN [err |-> "no such file", out |-> << >>]
    ELSE IF ~IsCommitData(objects[currentCommit])
    THEN [err |-> "cannot unmarshal", out |-> << >>]
    ELSE LET commit == UnmarshalCommit(objects[currentCommit])
             r == LogWalk(commit.parent)
         IN [err |-> r.err, out |-> <<Printed(currentCommit, commit)>> \o r.out]

\* mutation: log empties the log file after printing
ShowLog_truncate ==
    /\ inited
    /\ last' = Out("log", "")
    /\ logFile' = << >>
    /\ UNCHANGED <<inited, wt, headFile, mainRef, indexFile, objects, made,
                   fresh, edits, lost, aborted, proc, find>>

ShowLog ==
    /\ IF ~inited
       THEN last' = Out("log", "not a gitter repository")
       ELSE IF GetCurrentHead = EmptyHash
       THEN last' = [Out("log", "") EXCEPT !.note = "No commits yet"]
       ELSE LET r == LogWalk(GetCurrentHead)
            IN last' = [Out("log", r.err) EXCEPT !.listed = r.out]
    /\ UNCHANGED <<inited, wt, made, fresh, edits, lost, aborted, proc, find>>
    /\ UNCHANGED repoVars

----------------------------------------------------------------------------
(* diff *)

DiffArgs == {<< >>, <<"a.txt">>, <<"sub", "a.txt">>, <<"notes.gitter.txt">>,
             <<"sub">>}

\* difflib.SplitLines: every file of the model is one line; no bytes, no line
SplitLines(content) == IF content = << >> THEN << >> ELSE <<content[2]>>

IsUnder(dir, path) ==
    Len(dir) <= Len(path) /\ SubSeq(path, 1, Len(dir)) = dir

\* mutation: the "before" content is looked up in the live index
TreeOf_index(commit) == LoadIndex(indexFile)

\* the Tree of a commit: unreadable or unparsable tree data gives no entry
TreeOf(commit) ==
    IF commit.tree_hash \notin DOMAIN objects THEN << >>
    ELSE IF objects[commit.tree_hash][1] # "entries" THEN << >>
    ELSE UnmarshalEntries(objects[commit.tree_hash])

\* mutation: a path the Tree of the commit lacks is looked up in the Tree
\* of the parent commit
HeadContent_history(commit, filePath) ==
    LET Has(files) == \E i \in 1..Len(files) : files[i].file_path = filePath
        Get(files) ==
            LET k == CHOOSE i \in 1..Len(files) :
                        /\ files[i].file_path = filePath
                        /\ \A j \in 1..(i-1) : files[j].file_path # filePath
            IN IF files[k].hash \in DOMAIN objects
               THEN objects[files[k].hash]
               ELSE << >>
        parentFiles ==
            IF commit.parent \in DOMAIN objects
                  /\ IsCommitData(objects[commit.parent])
            THEN TreeOf(UnmarshalCommit(objects[commit.parent]))
            ELSE << >>
    IN IF Has(TreeOf(commit)) THEN Get(TreeOf(commit))
       ELSE IF Has(parentFiles) THEN Get(parentFiles)
       ELSE << >>

\* headContent: the blob of the first Tree entry with the path, if it can
\* be read; empty otherwise
HeadContent(commit, filePath) ==
    LET files == TreeOf(commit)
    IN IF ~\E i \in 1..Len(files) : files[i].file_path = filePath
       THEN << >>
       ELSE LET k == CHOOSE i \in 1..Len(files) :
                        /\ files[i].file_path = filePath
                        /\ \A j \in 1..(i-1) : files[j].file_path # filePath
            IN IF files[k].hash \in DOMAIN objects
               THEN objects[files[k].hash]
               ELSE << >>

\* difflib.GetUnifiedDiffString for one-line files: "" when equal
UnifiedDiff(a, b, filePath) ==
    IF a = b THEN << >>
    ELSE <<[file |-> filePath, removed |-> a, added |-> b]>>

\* filePath is read below repo.WorkingDir
showFileDiff(commit, filePath) ==
    IF IsDir(filePath) THEN [err |-> "is a directory", out |-> << >>]
    ELSE IF ~IsFile(filePath) THEN [err |-> "", out |-> << >>]
    ELSE [err |-> "",
          out |-> UnifiedDiff(SplitLines(HeadContent(commit, filePath)),
                              SplitLines(wt[filePath]), filePath)]

RECURSIVE DiffLoop(_, _)
DiffLoop(commit, filesToCheck) ==
    IF filesToCheck = << >> THEN << >>
    ELSE showFileDiff(commit, Head(filesToCheck)).out
            \o DiffLoop(commit, Tail(filesToCheck))

\* filepath.Walk(path) of a directory argument: the walked names are
\* relative like the argument, and filepath.Rel(repo.WorkingDir, p) of an
\* absolute base and a relative target fails at the first file
WalkDir(abs) ==
    IF \E f \in Range(WalkFiles) : IsUnder(abs, f)
    THEN [err |-> "Rel: can't make relative", files |-> << >>]
    ELSE [err |-> "", files |-> << >>]

\* "Get files to check"; path is taken relative to the current directory
FilesToCheck(cwd, path) ==
    IF path = << >>
    THEN [err |-> "",
          files |-> SelectSeq(WalkFiles, LAMBDA f : ~ContainsGitterDir(f))]
    ELSE IF ~Exists(cwd \o path)
    THEN [err |-> "no such file or directory", files |-> << >>]
    ELSE IF IsDir(cwd \o path) THEN WalkDir(cwd \o path)
    ELSE [err |-> "", files |-> <<path>>]

\* mutation: an empty HEAD is taken for a commit
NoCommitsYet_never(head) == FALSE

\* "If no commit exists, return error"
NoCommitsYet(head) == head = EmptyHash

ShowDiff(cwd, path) ==
    /\ IF ~inited
       THEN last' = Out("diff", "not a gitter repository")
       ELSE IF NoCommitsYet(GetCurrentHead)
       THEN last' = Out("diff", "no commits yet")
       ELSE IF GetCurrentHead \notin DOMAIN objects
       THEN last' = Out("diff", "no such file or directory")
       ELSE IF ~IsCommitData(objects[GetCurrentHead])
       THEN last' = Out("diff", "cannot unmarshal")
       ELSE LET commit == UnmarshalCommit(objects[GetCurrentHead])
                c == FilesToCheck(cwd, path)
            IN IF c.err # ""
               THEN last' = Out("diff", c.err)
               ELSE last' = [Out("diff", "") EXCEPT
                                !.diff = DiffLoop(commit, c.files)]
    /\ UNCHANGED <<inited, wt, made, fresh, edits, lost, aborted, proc, find>>
    /\ UNCHANGED repoVars

----------------------------------------------------------------------------
(* SaveIndex and LoadIndex called directly, by two invocations side by side *)

TestHash == CalculateHash(Blob(1))

\* the entries of TestLoadAndSaveIndex, and one for a file whose name is
\* not UTF-8
TestEntries ==
    {IndexEntry(<<"test.txt">>, TestHash, TRUE),
     IndexEntry(<<"src", "main.go">>, TestHash, FALSE),
     IndexEntry(<<BadName>>, TestHash, TRUE)}

RECURSIVE SeqsUpTo(_, _)
SeqsUpTo(S, n) ==
    IF n = 0 THEN {<< >>}
    ELSE LET shorter == SeqsUpTo(S, n - 1)
         IN shorter \cup {Append(q, e) : q \in shorter, e \in S}

IndexInputs == SeqsUpTo(TestEntries, MaxEntries)

\* the repository right after init
IndexInit ==
    /\ inited = TRUE
    /\ wt = [f \in Files |-> IF f = FS THEN Blob(1) ELSE NoFile]
    /\ headFile = HEAD_REF
    /\ mainRef = NoFile
    /\ indexFile = MarshalEntries(<< >>)
    /\ logFile = << >>
    /\ objects = << >>
    /\ made = << >>
    /\ fresh = {}
    /\ edits = 0
    /\ lost = FALSE
    /\ aborted = FALSE
    /\ proc = NoProc
    /\ last = NoOut
    /\ find = FindIdle

\* SaveIndex up to the open inside ioutil.WriteFile: the data is marshalled
\* and the index file is opened with O_TRUNC
SaveIndexOpen(index) ==
    /\ proc.pc = "idle"
    /\ proc' = [pc |-> "write", saving |-> index,
                before |-> LoadIndex(indexFile)]
    /\ indexFile' = EmptyBytes
    /\ UNCHANGED <<inited, wt, headFile, mainRef, logFile, objects, made,
                   fresh, edits, lost, aborted, find, last>>

\* the rest of ioutil.WriteFile: the data is written and the file closed
SaveIndexWrite ==
    /\ proc.pc = "write"
    /\ indexFile' = SaveIndex(proc.saving)
    /\ proc' = [proc EXCEPT !.pc = "idle"]
    /\ UNCHANGED <<inited, wt, headFile, mainRef, logFile, objects, made,
                   fresh, edits, lost, aborted, find, last>>

\* LoadIndex in another invocation, at any moment
LoadIndexCall ==
    /\ LET err == LoadIndexErr(indexFile)
       IN IF err # ""
          THEN last' = Out("load", err)
          ELSE last' = [Out("load", "") EXCEPT !.listed = LoadIndex(indexFile)]
    /\ UNCHANGED <<inited, wt, made, fresh, edits, lost, aborted, proc, find>>
    /\ UNCHANGED repoVars

----------------------------------------------------------------------------
(* AddFile in two invocations side by side, each for one existing file, run *)
(* in the working root: the steps are its reads and writes of shared files  *)

Procs == {1, 2}

Other(p) == CHOOSE q \in Procs : q # p

NoIndexBytes == <<"unset">>

\* both files exist; the repository is the one init left; each invocation
\* was given a file
RaceInit ==
    /\ inited = TRUE
    /\ wt \in [Files -> Blobs]
    /\ headFile = HEAD_REF
    /\ mainRef = NoFile
    /\ indexFile = MarshalEntries(<< >>)
    /\ logFile = << >>
    /\ objects = << >>
    /\ made = << >>
    /\ fresh = {}
    /\ edits = 0
    /\ lost = FALSE
    /\ aborted = FALSE
    /\ proc \in [Procs -> {[pc |-> "start", file |-> f, index |-> << >>,
                            data |-> NoIndexBytes, err |-> ""] : f \in Files}]
    /\ last = NoOut
    /\ find = FindIdle

NameLen(name) ==
    CASE name = "sub" -> 3
      [] name = "a.txt" -> 5
      [] name = "notes.gitter.txt" -> 16
      [] OTHER -> 8

RECURSIVE PathLen(_)
PathLen(path) ==
    IF path = << >> THEN 0
    ELSE IF Len(path) = 1 THEN NameLen(path[1])
    ELSE NameLen(Head(path)) + 1 + PathLen(Tail(path))

\* the bytes of one entry as json.Marshal writes it: the keys, the quotes,
\* the 40 hex digits of the hash, the path and true or false
EntryLen(e) == 78 + PathLen(e.file_path) + (IF e.modified THEN 4 ELSE 5)

RECURSIVE EntriesLen(_)
EntriesLen(entries) ==
    IF entries = << >> THEN 0
    ELSE EntryLen(Head(entries)) + EntriesLen(Tail(entries))

\* the length of a well-formed index file: brackets, entries, commas
Size(data) ==
    LET entries == UnmarshalEntries(data)
    IN 2 + EntriesLen(entries)
         + (IF Len(entries) > 1 THEN Len(entries) - 1 ELSE 0)

\* a write of data at offset 0 of a file that holds old since the open
Overwrite(old, data) ==
    IF old = EmptyBytes THEN data
    ELSE IF old = Garbled THEN Garbled
    ELSE IF Size(data) >= Size(old) THEN data
    ELSE Garbled

RaceUnchanged ==
    UNCHANGED <<inited, wt, headFile, mainRef, logFile, made, fresh, edits,
                lost, aborted, find, last>>

\* LoadIndex at the start of AddFile
AddLoadIndex(p) ==
    /\ proc[p].pc = "start"
    /\ LET err == LoadIndexErr(indexFile)
       IN IF err # ""
          THEN proc' = [proc EXCEPT ![p].pc = "failed", ![p].err = err]
          ELSE proc' = [proc EXCEPT ![p].pc = "loaded",
                                    ![p].index = LoadIndex(indexFile)]
    /\ UNCHANGED <<indexFile, objects>>
    /\ RaceUnchanged

\* the loop body for the one file: hash, entry updated in memory, blob copied
AddLoopBody(p) ==
    /\ proc[p].pc = "loaded"
    /\ LET file == proc[p].file
           hash == hashFile(file)
       IN /\ proc' = [proc EXCEPT ![p].pc = "hashed",
                                  ![p].index = Upsert(@, file, hash)]
          /\ objects' = copyFile(file, hash, objects)
    /\ UNCHANGED indexFile
    /\ RaceUnchanged

\* mutation: the index is read again and the entry merged into it
SavedIndex_reload(p) ==
    IF LoadIndexErr(indexFile) # "" THEN proc[p].index
    ELSE Upsert(LoadIndex(indexFile), proc[p].file, hashFile(proc[p].file))

\* what AddFile hands to SaveIndex: the slice it loaded at its start, with
\* its own entry
SavedIndex(p) == proc[p].index

\* SaveIndex up to the open of the index file with O_TRUNC
AddSaveOpen(p) ==
    /\ proc[p].pc = "hashed"
    /\ proc' = [proc EXCEPT ![p].pc = "opened",
                            ![p].data = SaveIndex(SavedIndex(p))]
    /\ indexFile' = EmptyBytes
    /\ UNCHANGED objects
    /\ RaceUnchanged

\* the write and the close; AddFile returns
AddSaveWrite(p) ==
    /\ proc[p].pc = "opened"
    /\ indexFile' = Overwrite(indexFile, proc[p].data)
    /\ proc' = [proc EXCEPT ![p].pc = "done"]
    /\ UNCHANGED objects
    /\ RaceUnchanged

----------------------------------------------------------------------------
Next ==
    \/ EditFile
    \/ RemoveFile
    \/ LoseBlob
    \/ InitRepository
    \/ \E cwd \in Dirs, filePath \in AddArgs : Add(cwd, filePath)
    \/ \E cwd \in Dirs, message \in Messages, all \in BOOLEAN, date \in Dates :
          CommitChanges(cwd, message, all, date)
    \/ ShowStatus
    \/ ShowLog
    \/ \E cwd \in Dirs, path \in DiffArgs : ShowDiff(cwd, path)

Spec == Init /\ [][Next]_vars

\* the commands that write the repository, where one write of one commit
\* may fail
FailNext ==
    \/ EditFile
    \/ InitRepository
    \/ \E cwd \in Dirs, filePath \in AddArgs : Add(cwd, filePath)
    \/ \E cwd \in Dirs, message \in Messages, all \in BOOLEAN, date \in Dates :
          CommitChanges(cwd, message, all, date)
    \/ \E cwd \in Dirs, message \in Messages, all \in BOOLEAN, date \in Dates,
          failed \in Range(FailSteps), torn \in BOOLEAN :
          CommitAborted(cwd, message, all, date, failed, torn)

FailSpec == Init /\ [][FailNext]_vars

IndexNext ==
    \/ \E index \in IndexInputs : SaveIndexOpen(index)
    \/ SaveIndexWrite
    \/ LoadIndexCall

IndexSpec == IndexInit /\ [][IndexNext]_vars

RaceNext ==
    \E p \in Procs :
        \/ AddLoadIndex(p)
        \/ AddLoopBody(p)
        \/ AddSaveOpen(p)
        \/ AddSaveWrite(p)

RaceSpec == RaceInit /\ [][RaceNext]_vars

FindNext == FindGitterRepo

\* the loop is the only thing running: it takes its next iteration
FindSpec == FindInit /\ [][FindNext]_vars /\ WF_vars(FindNext)

----------------------------------------------------------------------------
(* Properties *)

Index == IF inited THEN UnmarshalEntries(indexFile) ELSE << >>

Digest(bytes) == <<"sha1", bytes>>

AnyAdd(A(_, _)) == \A cwd \in Dirs, filePath \in AddArgs : A(cwd, filePath)

AnyCommit(A(_, _, _, _)) ==
    \A cwd \in Dirs, message \in Messages, all \in BOOLEAN, date \in Dates :
        A(cwd, message, all, date)

NoneStaged == \A i \in 1..Len(Index) : ~Index[i].modified

\* C1: commit without stageAllTracked on an index with no staged entry fails
\* with "nothing to commit" and leaves the branch ref, the log, the index and
\* the object store as they were.
C1_Step(cwd, message, all, date) ==
    (inited /\ ~all /\ NoneStaged /\ CommitChanges(cwd, message, all, date))
        => /\ last'.err = "nothing to commit"
           /\ UNCHANGED <<headFile, mainRef, logFile, indexFile, objects>>

C1_NothingToCommit == [][AnyCommit(C1_Step)]_vars

C1_Witness ==
    /\ last.op = "commit" /\ ~last.all /\ last.err = "nothing to commit"
    /\ Len(Index) > 0 /\ NoneStaged /\ Len(made) = 1

\* C2: right after a successful commit every entry of the persisted index has
\* staged=false, and the index holds the same paths in the same order and
\* the hashes of the index the commit read (without -a the index as it was;
\* with -a an entry re-added by the commit has the hash recorded in the
\* commit's Tree).
NewTree == UnmarshalEntries(objects'[UnmarshalCommit(objects'[mainRef']).tree_hash])

C2_Step(cwd, message, all, date) ==
    (inited /\ CommitChanges(cwd, message, all, date) /\ last'.err = "")
        => /\ Len(Index') = Len(Index)
           /\ \A i \in 1..Len(Index) :
                /\ ~Index'[i].modified
                /\ Index'[i].file_path = Index[i].file_path
                /\ \/ Index'[i].hash = Index[i].hash
                   \/ /\ all
                      /\ \E j \in 1..Len(NewTree) :
                            /\ NewTree[j].file_path = Index'[i].file_path
                            /\ NewTree[j].hash = Index'[i].hash

C2_IndexResetByCommit == [][AnyCommit(C2_Step)]_vars

C2_Witness ==
    /\ last.op = "commit" /\ last.err = ""
    /\ Len(Index) >= 2
    /\ \A i \in 1..Len(Index) : ~Index[i].modified

\* C3: before any commit GetCurrentHead is empty; a successful commit leaves
\* GetCurrentHead at the name of a new commit object, the digest of its bytes,
\* whose parent field is the value GetCurrentHead had before the commit.
C3_Step(cwd, message, all, date) ==
    (inited /\ CommitChanges(cwd, message, all, date) /\ last'.err = "")
        => LET h == GetCurrentHead'
           IN /\ h # EmptyHash
              /\ h \notin DOMAIN objects
              /\ h \in DOMAIN objects'
              /\ h = Digest(objects'[h])
              /\ objects'[h][1] = "commit"
              /\ objects'[h][2].parent = GetCurrentHead

C3_HeadFollowsCommits ==
    /\ [](inited /\ made = << >> => GetCurrentHead = EmptyHash)
    /\ [][AnyCommit(C3_Step)]_vars

C3_Witness ==
    /\ last.op = "commit" /\ last.err = "" /\ Len(made) = 2
    /\ GetCurrentHead = made[2]
    /\ objects[made[2]][2].parent = made[1]

\* C4: add(path) of an existing regular file leaves exactly one index entry
\* for the path, staged and holding the digest of the file's bytes, stores
\* those bytes under that digest, and leaves the other entries as they were,
\* in the same order.
Others(index, path) == SelectSeq(index, LAMBDA e : e.file_path # path)

C4_Step(cwd, filePath) ==
    (/\ inited
     /\ ~IsGlob(filePath)
     /\ cwd \o filePath \in Files
     /\ wt[cwd \o filePath] # NoFile
     /\ Add(cwd, filePath))
        => LET h == Digest(wt[cwd \o filePath])
           IN /\ last'.err = ""
              /\ Cardinality({i \in 1..Len(Index') :
                                Index'[i].file_path = filePath}) = 1
              /\ \A i \in 1..Len(Index') :
                    Index'[i].file_path = filePath
                        => Index'[i].hash = h /\ Index'[i].modified
              /\ h \in DOMAIN objects'
              /\ objects'[h] = wt[cwd \o filePath]
              /\ Others(Index', filePath) = Others(Index, filePath)

C4_AddUpserts == [][AnyAdd(C4_Step)]_vars

C4_Witness ==
    /\ last.op = "add" /\ last.err = "" /\ last.count = 1
    /\ Len(Index) = 2
    /\ ~Index[1].modified /\ Index[2].modified

\* C5: add(path) of a path that names no file succeeds and leaves the index
\* file and the object store as they were.
C5_Step(cwd, filePath) ==
    (/\ inited
     /\ ~IsGlob(filePath)
     /\ cwd \o filePath \notin Dirs
     /\ cwd \o filePath \in Files => wt[cwd \o filePath] = NoFile
     /\ Add(cwd, filePath))
        => /\ last'.err = ""
           /\ indexFile' = indexFile
           /\ objects' = objects

C5_AddMissing == [][AnyAdd(C5_Step)]_vars

C5_Witness ==
    /\ last.op = "add" /\ last.err = "" /\ last.count = 0
    /\ Len(Index) > 0
    /\ \E f \in Files : wt[f] = NoFile

\* C6: no two entries of the persisted index have the same path.
C6_UniquePaths ==
    \A i, j \in 1..Len(Index) :
        Index[i].file_path = Index[j].file_path => i = j

C6_Witness ==
    /\ last.op = "add" /\ last.err = "" /\ last.count = 1
    /\ Len(Index) = 2 /\ Len(made) = 1
    /\ \A i \in 1..Len(Index) : Index[i].modified

\* C7: a status run lists no path in more than one of its three buckets.
C7_BucketsDisjoint ==
    last.op = "status"
        => /\ Range(last.staged) \cap last.notStaged = {}
           /\ Range(last.staged) \cap last.untracked = {}
           /\ last.notStaged \cap last.untracked = {}

C7_Witness ==
    /\ last.op = "status" /\ last.err = ""
    /\ Len(last.staged) > 0
    /\ last.untracked # {}

\* C8: status lists a path as staged exactly when its index entry is staged,
\* as not staged exactly when its entry is not staged and the recorded hash
\* differs from the digest of the working-tree file, and as untracked exactly
\* when it is a working-tree file without index entry.
Tracked(path) == \E i \in 1..Len(Index) : Index[i].file_path = path

C8_Paths == Files \cup {Index[i].file_path : i \in 1..Len(Index)}

C8_Step ==
    (inited /\ ShowStatus)
        => \A path \in C8_Paths :
            /\ path \in Range(last'.staged)
                <=> \E i \in 1..Len(Index) :
                        Index[i].file_path = path /\ Index[i].modified
            /\ path \in last'.notStaged
                <=> \E i \in 1..Len(Index) :
                        /\ Index[i].file_path = path
                        /\ ~Index[i].modified
                        /\ path \in Files
                        /\ wt[path] # NoFile
                        /\ Index[i].hash # Digest(wt[path])
            /\ path \in last'.untracked
                <=> /\ path \in Files
                    /\ wt[path] # NoFile
                    /\ ~Tracked(path)

C8_StatusClassifies == [][C8_Step]_vars

\* C9: when every working-tree file has been added and not changed since, and
\* a commit has just succeeded, status reports the clean state; right after
\* a successful add status lists staged files.
C9_Step ==
    /\ (/\ inited
        /\ ShowStatus
        /\ last.op = "commit" /\ last.err = ""
        /\ \A f \in Files : wt[f] # NoFile => f \in fresh)
            => last'.clean
    /\ (/\ inited
        /\ ShowStatus
        /\ last.op = "add" /\ last.err = "" /\ last.count > 0)
            => Len(last'.staged) > 0

C9_CleanAfterCommit == [][C9_Step]_vars

\* C10: after n >= 1 commits log lists exactly these n commits, the most
\* recent first, each reached through the parent field of the one before;
\* with no commit it reports "No commits yet", lists nothing and succeeds.
C10_Step ==
    (inited /\ ShowLog)
        => /\ last'.err = ""
           /\ Len(last'.listed) = Len(made)
           /\ (made = << >>) <=> (last'.note = "No commits yet")
           /\ \A k \in 1..Len(made) :
                LET c == made[Len(made) - k + 1]
                    e == last'.listed[k]
                IN /\ e.read = c
                   /\ e.author = objects[c][2].author
                   /\ e.date = objects[c][2].date
                   /\ e.message = objects[c][2].message
                   /\ k < Len(made) => objects[c][2].parent = made[Len(made) - k]
                   /\ k = Len(made) => objects[c][2].parent = EmptyHash

C10_LogListsHistory == [][C10_Step]_vars

C10_Witness ==
    /\ last.op = "log" /\ last.err = ""
    /\ Len(made) = 2
    /\ Len(last.listed) = 2
    /\ last.listed[1].read = made[2]
    /\ last.listed[2].read = made[1]

\* C11: for every commit it lists, log prints the hash of the commit: the
\* name under which the commit object is stored, which HEAD or the parent
\* field of the child names.
C11_Step ==
    (inited /\ ShowLog)
        => \A k \in 1..Len(last'.listed) :
              last'.listed[k].hash = last'.listed[k].read

C11_LogPrintsHash == [][C11_Step]_vars

\* C12: the name of a stored commit object is the digest of its record with
\* the hash field empty, and the stored record has that name in its hash
\* field.
C12_StoredHashField ==
    \A h \in DOMAIN objects :
        objects[h][1] = "commit"
            => /\ h = Digest(<<"commit", [objects[h][2] EXCEPT !.hash = EmptyHash]>>)
               /\ objects[h][2].hash = h

\* C13: after a successful commit the object store holds, under the
\* tree_hash of the commit, the serialized list of the index entries that
\* were staged when the commit read the index, in index order (with -a the
\* index as the re-adds left it).
Paths(entries) == {entries[i].file_path : i \in 1..Len(entries)}

C13_Step(cwd, message, all, date) ==
    (inited /\ CommitChanges(cwd, message, all, date) /\ last'.err = "")
        => /\ mainRef' \in DOMAIN objects'
           /\ objects'[mainRef'][2].tree_hash \in DOMAIN objects'
           /\ LET th == objects'[mainRef'][2].tree_hash
                  T  == objects'[th][2]
                  J  == [i \in 1..Len(Index') |->
                            [Index'[i] EXCEPT !.modified = TRUE]]
              IN /\ objects'[th] = <<"entries", T>>
                 /\ th = Digest(objects'[th])
                 /\ ~all => T = SelectSeq(Index, LAMBDA e : e.modified)
                 /\ T = SelectSeq(J, LAMBDA e : e \in Range(T))
                 /\ \A i \in 1..Len(Index) :
                        Index[i].modified => Index[i].file_path \in Paths(T)
                 /\ \A e \in Range(T) :
                        \/ \E i \in 1..Len(Index) :
                              Index[i].file_path = e.file_path /\ Index[i].modified
                        \/ /\ all
                           /\ e.file_path \in Paths(Index)
                           /\ cwd \o e.file_path \in Files
                           /\ e.hash = Digest(wt[cwd \o e.file_path])

C13_TreeHoldsStaged == [][AnyCommit(C13_Step)]_vars

C13_Witness ==
    /\ last.op = "commit" /\ last.err = "" /\ ~last.all
    /\ Len(made) = 2
    /\ Len(Index) = 2
    /\ Len(objects[objects[mainRef][2].tree_hash][2]) = 1

AnyDiff(A(_, _)) == \A cwd \in Dirs, path \in DiffArgs : A(cwd, path)

\* C14: diff on a repository with no commit fails with "no commits yet" for
\* every argument (none, a file, a directory, a missing path), emits no diff
\* and changes nothing.
C14_Step(cwd, path) ==
    (inited /\ made = << >> /\ last'.op = "diff" /\ ShowDiff(cwd, path))
        => /\ last'.err = "no commits yet"
           /\ last'.diff = << >>
           /\ UNCHANGED <<wt, headFile, mainRef, indexFile, logFile, objects>>

C14_DiffNoCommits == [][AnyDiff(C14_Step)]_vars

C14_Witness ==
    /\ last.op = "diff" /\ last.err = "no commits yet"
    /\ made = << >>
    /\ Len(Index) > 0
    /\ \E f \in Files : wt[f] # NoFile

\* the Tree of the HEAD commit, and what it records for a path
HeadTree ==
    IF mainRef \in DOMAIN objects
    THEN IF objects[mainRef][2].tree_hash \in DOMAIN objects
         THEN objects[objects[mainRef][2].tree_hash][2]
         ELSE << >>
    ELSE << >>

InHeadTree(path) == \E i \in 1..Len(HeadTree) : HeadTree[i].file_path = path

BlobMissing(path) ==
    \E i \in 1..Len(HeadTree) :
        HeadTree[i].file_path = path /\ HeadTree[i].hash \notin DOMAIN objects

\* the lines of the blob the HEAD Tree records for the path; none without entry
Before(path) ==
    IF InHeadTree(path) /\ ~BlobMissing(path)
    THEN LET e == CHOOSE e \in Range(HeadTree) : e.file_path = path
         IN <<objects[e.hash][2]>>
    ELSE << >>

Shown(out) == {out[k].file : k \in 1..Len(out)}

IsAncestor(d, c) == Len(d) <= Len(c) /\ SubSeq(c, 1, Len(d)) = d

\* C15: every section diff prints is for an existing working file, with the
\* file's lines as added lines and, as removed lines, the lines of the blob
\* the HEAD commit's Tree records for the path (none when the Tree has no
\* entry for the path), whatever the live index holds; a candidate whose
\* lines differ from those is printed: every file the walk of the working
\* root keeps when diff has no argument, the named file when diff is given
\* a file in the working root.
C15_Step(cwd, path) ==
    (inited /\ last'.op = "diff" /\ last'.err = "" /\ ShowDiff(cwd, path))
        => /\ \A k \in 1..Len(last'.diff) :
                LET s == last'.diff[k]
                IN /\ s.file \in Files
                   /\ wt[s.file] # NoFile
                   /\ s.added = <<wt[s.file][2]>>
                   /\ s.removed # s.added
                   /\ ~BlobMissing(s.file) => s.removed = Before(s.file)
           /\ \A f \in Files :
                (/\ wt[f] # NoFile
                 /\ ~BlobMissing(f)
                 /\ Before(f) # <<wt[f][2]>>
                 /\ \/ path = << >> /\ ~ContainsGitterDir(f)
                    \/ path = f /\ cwd = << >>)
                    => f \in Shown(last'.diff)

C15_DiffAgainstHeadTree == [][AnyDiff(C15_Step)]_vars

C15_Witness ==
    /\ last.op = "diff" /\ last.err = ""
    /\ \E k \in 1..Len(last.diff) :
          /\ last.diff[k].removed = <<1>>
          /\ last.diff[k].added = <<2>>
          /\ \E i \in 1..Len(Index) :
                /\ Index[i].file_path = last.diff[k].file
                /\ Index[i].hash = Digest(Blob(2))

\* C16: diff with a directory argument, on a repository with a commit,
\* succeeds, prints a section for every file under the directory whose lines
\* differ from the ones the HEAD Tree records, and none for a file outside.
C16_Step(cwd, path) ==
    (/\ inited /\ made # << >>
     /\ path # << >> /\ cwd \o path \in Dirs
     /\ last'.op = "diff"
     /\ ShowDiff(cwd, path))
        => /\ last'.err = ""
           /\ \A f \in Shown(last'.diff) : IsAncestor(cwd \o path, f)
           /\ \A f \in Files :
                (/\ IsAncestor(cwd \o path, f)
                 /\ wt[f] # NoFile
                 /\ ~BlobMissing(f)
                 /\ Before(f) # <<wt[f][2]>>)
                    => f \in Shown(last'.diff)

C16_DiffDirectory == [][AnyDiff(C16_Step)]_vars

\* C17: when the HEAD Tree's entry for a candidate path names a blob that is
\* not in the object store, diff prints no section for the path, still
\* handles the other candidates and succeeds.
C17_Step(cwd, path) ==
    (/\ inited /\ made # << >>
     /\ path = << >> \/ (cwd \o path \in Files /\ wt[cwd \o path] # NoFile)
     /\ last'.op = "diff"
     /\ ShowDiff(cwd, path))
        => /\ last'.err = ""
           /\ \A f \in Shown(last'.diff) : ~BlobMissing(f)
           /\ \A k \in 1..Len(last'.diff) :
                last'.diff[k].removed = Before(last'.diff[k].file)

C17_DiffSkipsMissingBlob == [][AnyDiff(C17_Step)]_vars

\* C18: init where the metadata directory exists fails with "repository
\* already initialized" and leaves HEAD, the branch ref, the index, the log
\* and the objects as they were.
C18_Step ==
    (inited /\ InitRepository)
        => /\ last'.err = "repository already initialized"
           /\ inited'
           /\ UNCHANGED <<headFile, mainRef, indexFile, logFile, objects>>

C18_InitTwice == [][C18_Step]_vars

C18_Witness ==
    /\ last.op = "init" /\ last.err = "repository already initialized"
    /\ Len(made) >= 1
    /\ Len(Index) >= 1
    /\ logFile # << >>

\* C19: a successful init makes .gitter with refs/heads and objects, HEAD
\* holding exactly "ref: refs/heads/main\n", an index holding the empty
\* sequence and an empty log, and no branch file: LoadIndex then returns the
\* empty sequence and GetCurrentHead the empty string.
C19_Step ==
    (~inited /\ InitRepository)
        => /\ last'.err = ""
           /\ inited'
           /\ {<<".gitter">>, <<".gitter", "refs", "heads">>,
               <<".gitter", "objects">>} \subseteq GitterDirs'
           /\ headFile' = "ref: refs/heads/main\n"
           /\ indexFile' = <<"entries", << >>>>
           /\ LoadIndex(indexFile') = << >>
           /\ logFile' = << >>
           /\ mainRef' = NoFile
           /\ objects' = << >>
           /\ GetCurrentHead' = EmptyHash

C19_InitCreates == [][C19_Step]_vars

C19_Witness ==
    /\ last.op = "init" /\ last.err = ""
    /\ inited
    /\ headFile = "ref: refs/heads/main\n"
    /\ Index = << >>

\* C20: FindGitterRepo returns the nearest directory, from the current one up
\* through its ancestors, that holds the metadata directory, with GitDir =
\* WorkingDir/.gitter; it fails with "not a gitter repository" exactly when
\* none of them holds it; and it always returns.
C20_Nearest ==
    (find.pc = "return" /\ find.err = "")
        => /\ find.repo.WorkingDir \in find.repos
           /\ IsAncestor(find.repo.WorkingDir, find.cwd)
           /\ \A d \in find.repos :
                IsAncestor(d, find.cwd) => Len(d) <= Len(find.repo.WorkingDir)
           /\ find.repo.GitDir = find.repo.WorkingDir \o <<".gitter">>

C20_Fails ==
    find.pc = "return"
        => /\ find.err \in {"", "not a gitter repository"}
           /\ find.err = "not a gitter repository"
                <=> ~\E d \in find.repos : IsAncestor(d, find.cwd)

C20_FindGitterRepo ==
    /\ [](C20_Nearest /\ C20_Fails)
    /\ (find.pc = "loop") ~> (find.pc = "return")

C20_Witness ==
    /\ find.pc = "return" /\ find.err = ""
    /\ find.repo.WorkingDir # find.cwd
    /\ \E d \in find.repos :
          d # find.repo.WorkingDir /\ IsAncestor(d, find.repo.WorkingDir)

----------------------------------------------------------------------------
\* C21: for every sequence of index entries x, LoadIndex after SaveIndex(x)
\* returns the same entries (path, hash, staged flag) in the same order,
\* and SaveIndex(LoadIndex()) leaves the persisted index unchanged
C21_SaveLoadRoundTrip ==
    [][SaveIndexWrite =>
          /\ LoadIndexErr(indexFile') = ""
          /\ LoadIndex(indexFile') = proc.saving
          /\ SaveIndex(LoadIndex(indexFile')) = indexFile']_vars

----------------------------------------------------------------------------
\* C26: a LoadIndex running while a SaveIndex is in progress never observes
\* a partially written index file: it returns without error, and what it
\* returns is the sequence persisted before the save or the sequence being
\* saved (as SaveIndex persists it)
C26_LoadDuringSave ==
    [][proc.pc = "write" /\ LoadIndexCall =>
          /\ last'.err = ""
          /\ last'.listed \in {proc.before,
                               LoadIndex(SaveIndex(proc.saving))}]_vars

----------------------------------------------------------------------------
\* C22: in add with a glob, a failure on one matched path (a directory) does
\* not stop the others: after the add every matched regular file has a staged
\* entry with its digest in the persisted index
C22_Step(cwd, filePath) ==
    (inited /\ IsGlob(filePath) /\ Add(cwd, filePath))
        => LET matches == Glob(cwd, filePath)
           IN \A i \in 1..Len(matches) :
                 IsFile(cwd \o matches[i])
                    => \E k \in 1..Len(Index') :
                          /\ Index'[k].file_path = matches[i]
                          /\ Index'[k].hash = Digest(wt[cwd \o matches[i]])
                          /\ Index'[k].modified

C22_GlobPerFile == [][AnyAdd(C22_Step)]_vars

\* C23: add with a directory argument stages all files in that directory:
\* after it each of them has an index entry with staged = true
C23_Step(cwd, filePath) ==
    (inited /\ ~IsGlob(filePath) /\ IsDir(cwd \o filePath) /\ Add(cwd, filePath))
        => \A f \in Files :
              (IsFile(f) /\ IsUnder(cwd \o filePath, f))
                 => \E k \in 1..Len(Index') :
                       /\ cwd \o Index'[k].file_path = f
                       /\ Index'[k].modified

C23_AddDirectory == [][AnyAdd(C23_Step)]_vars

----------------------------------------------------------------------------
\* C24: a successful commit with stageAllTracked re-adds every working-tree
\* file whose path is in the index, so the committed Tree holds an entry with
\* the current digest of each such file, and it leaves untracked files alone:
\* the set of index paths is the same before and after the commit
C24_Step(cwd, message, all, date) ==
    (inited /\ all /\ CommitChanges(cwd, message, all, date) /\ last'.err = "")
        => /\ \A f \in Files :
                 (IsFile(f) /\ IsTracked(Index, f))
                    => \E k \in 1..Len(NewTree) :
                          /\ NewTree[k].file_path = f
                          /\ NewTree[k].hash = Digest(wt[f])
           /\ Paths(Index') = Paths(Index)

C24_CommitAllTracked == [][AnyCommit(C24_Step)]_vars

----------------------------------------------------------------------------
AnyAborted(A(_, _, _, _, _, _)) ==
    \A cwd \in Dirs, message \in Messages, all \in BOOLEAN, date \in Dates,
       failed \in Range(FailSteps), torn \in BOOLEAN :
        A(cwd, message, all, date, failed, torn)

\* C25: a commit aborted by a failure of the tree store, the commit store,
\* the branch-ref update, the log append or the index reset does not change
\* the persisted branch ref: GetCurrentHead returns what it returned before
\* the commit started
C25_Step(cwd, message, all, date, failed, torn) ==
    CommitAborted(cwd, message, all, date, failed, torn)
        => GetCurrentHead' = GetCurrentHead

C25_AbortKeepsHead == [][AnyAborted(C25_Step)]_vars

----------------------------------------------------------------------------
\* C27: add is idempotent on an unchanged file: in every state, for every
\* directory and argument, the index file and the object store (names and
\* bytes) an add leaves are left as they are by a second add of the same
\* argument, which also ends with the same error or success
C27_AddIdempotent ==
    inited =>
        \A cwd \in Dirs, filePath \in AddArgs :
            LET once  == AddFile(cwd, filePath, indexFile, objects)
                twice == AddFile(cwd, filePath, once.indexFile, once.objects)
            IN /\ twice.indexFile = once.indexFile
               /\ twice.objects = once.objects
               /\ twice.err = once.err

\* an add staged a file, its blob is stored under its digest
C27_Witness ==
    /\ last.op = "add" /\ last.err = ""
    /\ \E i \in 1..Len(Index) :
          /\ Index[i].file_path = FS
          /\ Index[i].modified
          /\ Index[i].hash = Digest(wt[FS])
          /\ Index[i].hash \in DOMAIN objects
          /\ objects[Index[i].hash] = wt[FS]

----------------------------------------------------------------------------
\* C28: objects are never mutated or deleted: across every step of init,
\* add, commit, status, diff and log (every step but the deletion of an
\* object file by the user), each object of the store is still in the store
\* under its name and holds the same bytes
C28_ObjectsKept ==
    [][lost' = lost =>
          \A h \in DOMAIN objects :
              h \in DOMAIN objects' /\ objects'[h] = objects[h]]_vars

\* two commits were made and both commit objects, made at different times,
\* are in the store with the objects added in between
C28_Witness ==
    /\ ~lost
    /\ Len(made) = 2
    /\ made[1] \in DOMAIN objects /\ made[2] \in DOMAIN objects
    /\ Cardinality(DOMAIN objects) >= 5
    /\ last.op = "diff"

----------------------------------------------------------------------------
\* the commits reached from h by parent fields, oldest first; the walk stops
\* at the empty hash, at a name with no commit object, or after fuel commits
RECURSIVE ChainFrom(_, _)
ChainFrom(h, fuel) ==
    IF h = EmptyHash \/ fuel = 0 THEN << >>
    ELSE IF h \notin DOMAIN objects THEN << >>
    ELSE IF ~IsCommitData(objects[h]) THEN << >>
    ELSE Append(ChainFrom(UnmarshalCommit(objects[h]).parent, fuel - 1), h)

\* C29: the log file is append-only and in commit order: when every
\* operation ran to completion its lines are exactly the hashes of the
\* commits on the parent chain from HEAD, oldest first, one per line; a
\* successful commit appends one line, the hash of the new HEAD, and no
\* other step changes the file
C29_LogIsChain ==
    /\ [](inited => logFile = ChainFrom(GetCurrentHead, MaxCommits + 1))
    /\ [][IF last'.op = "commit" /\ last'.err = "" /\ made' # made
          THEN logFile' = Append(logFile, GetCurrentHead')
          ELSE logFile' = logFile]_vars

\* two commits ran to completion: the log has two lines
C29_Witness ==
    /\ Len(logFile) = 2
    /\ Len(made) = 2
    /\ logFile[2] = GetCurrentHead
    /\ last.op = "commit" /\ last.err = ""

----------------------------------------------------------------------------
\* following parent fields from h reaches the empty hash through stored
\* commit objects only, in at most fuel steps
RECURSIVE EndsAtRoot(_, _)
EndsAtRoot(h, fuel) ==
    IF h = EmptyHash THEN TRUE
    ELSE /\ fuel > 0
         /\ h \in DOMAIN objects
         /\ IsCommitData(objects[h])
         /\ EndsAtRoot(UnmarshalCommit(objects[h]).parent, fuel - 1)

\* C30: in every reachable state, the states left by a commit aborted at any
\* write included, the chain of parent fields from HEAD is finite and
\* acyclic (it has no more commits than the store has objects), names only
\* commit objects that are in the store, and ends at a commit with empty
\* parent
C30_ChainEndsAtRoot ==
    inited => EndsAtRoot(GetCurrentHead, Cardinality(DOMAIN objects))

\* a second commit was aborted after its ref update: HEAD names it, the log
\* does not, and its chain has two commits
C30_Witness ==
    /\ aborted
    /\ GetCurrentHead # EmptyHash
    /\ Len(logFile) < Len(made)
    /\ Len(ChainFrom(GetCurrentHead, MaxCommits + 1)) = 2

----------------------------------------------------------------------------
\* C31: in every state an index entry has staged = true only if there is no
\* commit, or the Tree of the last commit has no entry for its path, or the
\* hash that Tree records for its path differs from the entry's hash
C31_StagedMeansDiffers ==
    inited =>
        \A i \in 1..Len(Index) :
            Index[i].modified =>
                \/ GetCurrentHead = EmptyHash
                \/ ~InHeadTree(Index[i].file_path)
                \/ \A k \in 1..Len(HeadTree) :
                      HeadTree[k].file_path = Index[i].file_path
                          => HeadTree[k].hash # Index[i].hash

----------------------------------------------------------------------------
\* C32: every index entry written by add holds a repo-relative path,
\* whatever the directory add ran in: after an add of an existing file the
\* index has a staged entry whose path is the file's path from the working
\* root, with the file's digest, and add puts no path in the index that is
\* not the root-relative path of the file it hashed
C32_Step(cwd, filePath) ==
    (inited /\ ~IsGlob(filePath) /\ IsFile(cwd \o filePath)
        /\ Add(cwd, filePath))
        => /\ \E k \in 1..Len(Index') :
                 /\ Index'[k].file_path = cwd \o filePath
                 /\ Index'[k].hash = Digest(wt[cwd \o filePath])
                 /\ Index'[k].modified
           /\ Paths(Index') \ Paths(Index) \subseteq {cwd \o filePath}

C32_RepoRelativePaths == [][AnyAdd(C32_Step)]_vars

----------------------------------------------------------------------------
\* C33: status considers every regular file under the working root outside
\* the metadata directory: each such file that has no index entry is listed
\* as untracked, whatever its name
C33_Step ==
    (inited /\ last'.op = "status" /\ ShowStatus)
        => \A f \in Files :
              (IsFile(f) /\ f[1] # GITTER_DIR /\ ~Tracked(f))
                 => f \in last'.untracked

C33_UntrackedWhateverName == [][C33_Step]_vars

----------------------------------------------------------------------------
AllDone == \A p \in Procs : proc[p].pc = "done"

\* C34: no locking: when two add invocations for two different files both
\* loaded the index before either saved it (neither's slice has the other's
\* file) and both have returned, the persisted index, if it can be read,
\* has an entry for exactly one of the two files
C34_LostUpdate ==
    (/\ AllDone
     /\ proc[1].file # proc[2].file
     /\ \A p \in Procs : proc[Other(p)].file \notin Paths(proc[p].index)
     /\ LoadIndexErr(indexFile) = "")
        => \E p \in Procs :
              /\ proc[p].file \in Paths(LoadIndex(indexFile))
              /\ proc[Other(p)].file \notin Paths(LoadIndex(indexFile))

\* both invocations returned without error and the index holds one entry
C34_Witness ==
    /\ AllDone
    /\ proc[1].file # proc[2].file
    /\ LoadIndexErr(indexFile) = ""
    /\ Len(LoadIndex(indexFile)) = 1
    /\ \A p \in Procs : hashFile(proc[p].file) \in DOMAIN objects

----------------------------------------------------------------------------
\* C35: status, diff and log change no persisted state (HEAD, branch ref,
\* index, log, object store), and add changes only the index and the object
\* store: it leaves HEAD, the branch ref and the log as they were.  A step
\* that is not a change of the working tree or of an object file by the user
\* (those count in edits and lost) and ends with the result of a status,
\* diff, log or add is a step of that command.
C35_Frames ==
    [][(edits' = edits /\ lost' = lost)
          => /\ last'.op \in {"status", "diff", "log"}
                   => UNCHANGED <<headFile, mainRef, indexFile, logFile,
                                  objects>>
             /\ last'.op = "add"
                   => UNCHANGED <<headFile, mainRef, logFile>>]_vars

\* log listed two commits of a repository that has a staged entry
C35_Witness ==
    /\ last.op = "log" /\ last.err = ""
    /\ Len(last.listed) = 2
    /\ Len(logFile) = 2
    /\ ~NoneStaged

----------------------------------------------------------------------------
\* C36: in every state reached by init, add and commit (and edits of the
\* working tree, but no deletion of an object file by the user), each entry
\* of the persisted index has a hash that names an object of the store, and
\* the name is the digest of that object's bytes
C36_IndexHashesStored ==
    (inited /\ ~lost) =>
        \A i \in 1..Len(Index) :
            /\ Index[i].hash \in DOMAIN objects
            /\ Digest(objects[Index[i].hash]) = Index[i].hash

\* after a commit and a later add the index has a committed and a staged
\* entry, and the file of one of them was changed since
C36_Witness ==
    /\ ~lost
    /\ Len(made) = 1
    /\ Len(Index) = 2
    /\ ~Index[1].modified /\ Index[2].modified
    /\ edits = 1
    /\ last.op = "add" /\ last.err # ""

----------------------------------------------------------------------------
\* the file an index path was written for: the path taken from the directory
\* add ran in
FileOf(path) ==
    IF \E c \in Dirs : c \o path \in Files
    THEN CHOOSE f \in Files : \E c \in Dirs : c \o path = f
    ELSE path

\* C37: a successful commit without stageAllTracked records for each staged
\* path the digest of its last add, not the content at commit time: when the
\* file of a staged entry was modified after the add, the Tree holds the
\* entry's digest and a status after the commit lists the file as not staged
C37_Step(cwd, message, all, date) ==
    (inited /\ ~all /\ last'.op = "commit" /\ last'.err = ""
        /\ CommitChanges(cwd, message, all, date))
        => \A i \in 1..Len(Index) :
              LET f == FileOf(Index[i].file_path)
              IN (/\ Index[i].modified
                  /\ IsFile(f)
                  /\ Index[i].hash # Digest(wt[f]))
                    => /\ \E k \in 1..Len(NewTree) :
                             /\ NewTree[k].file_path = Index[i].file_path
                             /\ NewTree[k].hash = Index[i].hash
                       /\ f \in NotStagedBucket(Index')

C37_CommitKeepsAddDigest == [][AnyCommit(C37_Step)]_vars

----------------------------------------------------------------------------
\* C38: commit with stageAllTracked, run from the working root when at least
\* one working-tree file has its path in the index, never fails with
\* "nothing to commit", even when no tracked file differs from its index
\* hash: a commit is created and HEAD advances to it
C38_Step(cwd, message, all, date) ==
    (/\ inited /\ all /\ cwd = << >>
     /\ \E f \in Files : IsFile(f) /\ IsTracked(Index, f)
     /\ last'.op = "commit"
     /\ CommitChanges(cwd, message, all, date))
        => /\ last'.err = ""
           /\ GetCurrentHead' # GetCurrentHead
           /\ GetCurrentHead' \in DOMAIN objects'

C38_CommitAllNeverEmpty == [][AnyCommit(C38_Step)]_vars

----------------------------------------------------------------------------
\* the index path names no file of the working tree and its entry is not
\* staged
GoneUnstaged(path) ==
    /\ ~(path \in Files /\ wt[path] # NoFile)
    /\ \A i \in 1..Len(Index) :
          Index[i].file_path = path => ~Index[i].modified

\* every file of the working tree has an index entry with its digest
TreeMatchesIndex ==
    \A f \in Files :
        IsFile(f) => /\ Tracked(f)
                     /\ IndexedEntry(Index, f).hash = Digest(wt[f])

\* C39: in status a tracked path whose entry has staged = false and whose
\* file is no longer in the working tree appears in no bucket; when that is
\* the only difference (nothing is staged and every working-tree file has an
\* entry with its digest) status reports the clean state
C39_Step ==
    (inited /\ last'.op = "status" /\ ShowStatus)
        => /\ \A path \in Paths(Index) :
                 GoneUnstaged(path)
                    => /\ path \notin Range(last'.staged)
                       /\ path \notin last'.notStaged
                       /\ path \notin last'.untracked
           /\ ((\E path \in Paths(Index) : GoneUnstaged(path))
                  /\ NoneStaged /\ TreeMatchesIndex)
                 => last'.clean

C39_DeletedTrackedUnseen == [][C39_Step]_vars

\* status reported the clean state although the committed file sub/a.txt was
\* removed from the working tree
C39_Witness ==
    /\ last.op = "status" /\ last.clean
    /\ wt[FS] = NoFile
    /\ \E i \in 1..Len(Index) : Index[i].file_path = FS /\ ~Index[i].modified

----------------------------------------------------------------------------
\* the Tree of the n-th commit made
TreeMade(n) ==
    IF made[n] \in DOMAIN objects
          /\ objects[made[n]][2].tree_hash \in DOMAIN objects
    THEN objects[objects[made[n]][2].tree_hash][2]
    ELSE << >>

\* a commit before the HEAD commit recorded the path
CommittedEarlier(path) ==
    \E n \in 1..(Len(made) - 1) :
        \E i \in 1..Len(TreeMade(n)) : TreeMade(n)[i].file_path = path

\* C40: a Tree holds only the entries staged at its commit: a path whose
\* index entry is not staged when commit (without -a) runs has no entry in
\* the new HEAD Tree.  For a file recorded by an earlier commit and without
\* entry in the HEAD Tree, every section diff prints has no removed line and
\* the file's lines as added lines, and the section is printed whenever the
\* file is a candidate (diff without argument, or diff of the file from the
\* working root), also when the file is unmodified since its commit.
C40_CommitStep ==
    (/\ inited /\ edits' = edits /\ lost' = lost /\ made' # made
     /\ last'.op = "commit" /\ last'.err = "" /\ ~last'.all)
        => \A path \in Paths(Index) :
              (\A i \in 1..Len(Index) :
                    Index[i].file_path = path => ~Index[i].modified)
                 => path \notin Paths(NewTree)

C40_DiffStep(cwd, path) ==
    (inited /\ last'.op = "diff" /\ last'.err = "" /\ ShowDiff(cwd, path))
        => \A f \in Files :
              (wt[f] # NoFile /\ CommittedEarlier(f) /\ ~InHeadTree(f))
                 => /\ \A k \in 1..Len(last'.diff) :
                          last'.diff[k].file = f
                             => /\ last'.diff[k].removed = << >>
                                /\ last'.diff[k].added = <<wt[f][2]>>
                    /\ (\/ path = << >> /\ ~ContainsGitterDir(f)
                        \/ path = f /\ cwd = << >>)
                          => f \in Shown(last'.diff)

C40_EarlierCommitAllAdded ==
    /\ [][C40_CommitStep]_vars
    /\ [][AnyDiff(C40_DiffStep)]_vars

\* diff printed, with no removed line, a file that the first commit
\* recorded with the digest it still has and that the HEAD Tree lacks
C40_Witness ==
    /\ last.op = "diff" /\ last.err = "" /\ Len(made) = 2
    /\ \E f \in Files :
          /\ wt[f] # NoFile
          /\ ~InHeadTree(f)
          /\ \E i \in 1..Len(TreeMade(1)) :
                /\ TreeMade(1)[i].file_path = f
                /\ TreeMade(1)[i].hash = Digest(wt[f])
          /\ \E k \in 1..Len(last.diff) :
                /\ last.diff[k].file = f
                /\ last.diff[k].removed = << >>
                /\ last.diff[k].added = <<wt[f][2]>>

====
